---- MODULE Spec2Model ----
(***************************************************************************)
(* Model of the issue-to-pull-request agents of frontMegaProj:             *)
(*   agent/code_agent.py      the patch pipeline (main) and its helpers    *)
(*   agent/agno_agent.py      run_coding_agent, the tool-using agent       *)
(*   agent/reviewer_agent.py  the pull-request reviewer (main)             *)
(*                                                                         *)
(* Strings are modelled as TLA+ strings, character by character (Len,      *)
(* SubSeq and \o act on them), so lower(), strip(), the "in" operator,     *)
(* endswith() and the two regular expressions of extract_diff are          *)
(* computed as the Python code computes them.  A TLA+ string cannot hold   *)
(* a backquote: BQ stands for that one character throughout.               *)
(*                                                                         *)
(* Four specifications:                                                    *)
(*   Spec      one run of one of the three programs, chosen by prog        *)
(*   SpecCtx   build_context applied to a drawn candidate-file list        *)
(*   SpecDiff  extract_diff applied to a drawn text, then to its result    *)
(*   SpecScore score_file applied to one path and a long task text         *)
(***************************************************************************)
EXTENDS Integers, Sequences, FiniteSets, TLC

VARIABLES
    prog,           \* which program this run executes
    env,            \* the process environment (unset is "")
    pc,             \* position of the run in its main / run_coding_agent
    effects,        \* log of the side effects performed so far, in order
    models,         \* the list returned by iter_models / _iter_models
    idx,            \* index of the model the loop is about to try
    last_err,       \* code_agent main: last_err (message); agno: last_msg
    last_raw,       \* code_agent main: last_raw
    diff_text,      \* code_agent main: diff_text ("" is None)
    used_model,     \* code_agent main: used_model ("" is None)
    exc,            \* the exception that ended the run ("" while none)
    file_names,     \* reviewer main: file_names
    states,         \* reviewer: [s.state for s in combined.statuses]
    fetch_failed,   \* reviewer: the combined-status fetch raised
    checks_overall, \* reviewer main: checks_overall
    suspicious,     \* reviewer main: suspicious
    verdict,        \* reviewer main: verdict
    issue_text,     \* build_context: issue_text
    all_files,      \* build_context: all_files, the paths gather_repo_files() returned
    chosen,         \* build_context: chosen, each file with its score
    ctx_pc,         \* build_context: "start", "ranked" or "returned"
    context,        \* build_context: what it returned (lengths, paths, sizes read)
    text,           \* extract_diff: the text given to the first call
    diff_pc,        \* extract_diff: "start", "once", "twice"
    first,          \* result of extract_diff(text)
    second          \* result of extract_diff(first.value)

mainVars == <<prog, env, pc, effects, models, idx, last_err, last_raw,
              diff_text, used_model, exc>>
revVars == <<file_names, states, fetch_failed, checks_overall, suspicious, verdict>>
ctxVars == <<issue_text, all_files, chosen, ctx_pc, context>>
diffVars == <<text, diff_pc, first, second>>
vars == <<mainVars, revVars, ctxVars, diffVars>>

----------------------------------------------------------------------------
(* Bounds of the model.                                                    *)

\* longest list of individual check states drawn for the reviewer
MaxChecks == 3
\* largest number of candidate files drawn for build_context
MaxCandidates == 9
\* largest number of fragments a text given to extract_diff is made of
MaxFragments == 4

----------------------------------------------------------------------------
(* Python string operations.                                               *)

\* the backquote character
BQ == "~"

CharAt(s, i) == SubSeq(s, i, i)

\* sub in s
Contains(s, sub) ==
    \E i \in 1..(Len(s) - Len(sub) + 1) : SubSeq(s, i, i + Len(sub) - 1) = sub

\* s.endswith(suffix)
EndsWith(s, suffix) ==
    /\ Len(suffix) <= Len(s)
    /\ SubSeq(s, Len(s) - Len(suffix) + 1, Len(s)) = suffix

\* s.startswith(prefix)
StartsWith(s, prefix) ==
    /\ Len(prefix) <= Len(s)
    /\ SubSeq(s, 1, Len(prefix)) = prefix

UpperChars == "ABCDEFGHIJKLMNOPQRSTUVWXYZ"
LowerChars == "abcdefghijklmnopqrstuvwxyz"

\* the characters of a string
CharsOf(s) == {CharAt(s, i) : i \in 1..Len(s)}

\* the lower-case letter of each upper-case letter
LowerOf ==
    [c \in CharsOf(UpperChars) |->
        CharAt(LowerChars, CHOOSE i \in 1..Len(UpperChars) : CharAt(UpperChars, i) = c)]

LowerChar(c) == IF c \in DOMAIN LowerOf THEN LowerOf[c] ELSE c

RECURSIVE Lower(_)
\* s.lower(): each character lowered, the halves of the string joined
Lower(s) ==
    IF Len(s) <= 1 THEN LowerChar(s)
    ELSE Lower(SubSeq(s, 1, Len(s) \div 2)) \o Lower(SubSeq(s, Len(s) \div 2 + 1, Len(s)))

\* what str.strip() removes and the regular expressions' \s matches
IsSpace(c) == c \in {" ", "\n", "\t", "\r", "\f"}

RECURSIVE LStrip(_)
LStrip(s) ==
    IF s # "" /\ IsSpace(CharAt(s, 1)) THEN LStrip(SubSeq(s, 2, Len(s))) ELSE s

RECURSIVE RStrip(_)
RStrip(s) ==
    IF s # "" /\ IsSpace(CharAt(s, Len(s))) THEN RStrip(SubSeq(s, 1, Len(s) - 1)) ELSE s

\* s.strip()
Strip(s) == RStrip(LStrip(s))

RECURSIVE ReplaceCRLF(_)
\* s.replace("\r\n", "\n")
ReplaceCRLF(s) ==
    IF Len(s) < 2 THEN s
    ELSE IF SubSeq(s, 1, 2) = "\r\n" THEN "\n" \o ReplaceCRLF(SubSeq(s, 3, Len(s)))
    ELSE CharAt(s, 1) \o ReplaceCRLF(SubSeq(s, 2, Len(s)))

\* the elements of a sequence
Range(q) == {q[i] : i \in DOMAIN q}

\* any(m in s for m in markers)
AnyMarkerIn(markers, s) == \E i \in DOMAIN markers : Contains(s, markers[i])

----------------------------------------------------------------------------
(* Model selection: code_agent.iter_models and agno_agent._iter_models.    *)

DEFAULT_MODEL == "openai/gpt-4o-mini"

ALLOWLIST_DEFAULT ==
    << "qwen/qwen3-coder:free",
       "openai/gpt-oss-120b:free",
       "tngtech/deepseek-r1t2-chimera:free" >>

AGNO_ALLOWLIST_DEFAULT ==
    << "tngtech/deepseek-r1t2-chimera:free",
       "qwen/qwen3-coder:free",
       "openai/gpt-oss-120b:free" >>

RECURSIVE AppendUnseen(_, _)
\* for m in allowlist: if m not in models: models.append(m)
AppendUnseen(acc, rest) ==
    IF rest = <<>> THEN acc
    ELSE AppendUnseen(IF Head(rest) \in Range(acc) THEN acc ELSE Append(acc, Head(rest)),
                      Tail(rest))

\* a selection that forgets the "not in" test
iter_models_nodedup(model_env) ==
    (IF Strip(model_env) # "" THEN <<Strip(model_env)>> ELSE <<DEFAULT_MODEL>>)
        \o ALLOWLIST_DEFAULT

\* a selection that always puts the default after the override
iter_models_with_default(model_env) ==
    AppendUnseen(IF Strip(model_env) # "" THEN <<Strip(model_env), DEFAULT_MODEL>>
                 ELSE <<DEFAULT_MODEL>>,
                 ALLOWLIST_DEFAULT)

iter_models(model_env) ==
    LET env_model == Strip(model_env)
        start == IF env_model # "" THEN <<env_model>> ELSE <<DEFAULT_MODEL>>
    IN  AppendUnseen(start, ALLOWLIST_DEFAULT)

agno_iter_models(model_env) ==
    LET env_model == Strip(model_env)
        start == IF env_model # "" THEN <<env_model>> ELSE <<>>
    IN  AppendUnseen(start, AGNO_ALLOWLIST_DEFAULT)

----------------------------------------------------------------------------
(* Error classification.                                                   *)

RetryableMarkers ==
    << "rate limit", "rate-limited", "temporarily rate-limited",
       "provider returned error", "no endpoints found", "insufficient credits",
       "no models provided", "error code: 429", "error code: 402",
       "error code: 404", "tool use", "support tool use" >>

looks_retryable_error(msg) == AnyMarkerIn(RetryableMarkers, Lower(msg))

TransientMarkers ==
    << "rate limit", "rate-limited", "temporarily rate-limited",
       "provider returned error", "insufficient credits", "no models provided",
       "error code: 429", "error code: 402", "code': 429", "code': 402" >>

looks_like_transient_error(msg) == AnyMarkerIn(TransientMarkers, Lower(msg))

----------------------------------------------------------------------------
(* code_agent.extract_diff.                                                *)

FENCE == BQ \o BQ \o BQ
GIT_HEADER == "diff --git "
NO_DIFF_MSG == "No diff found in model output. Expected " \o FENCE \o "diff ..." \o FENCE \o "."

\* index of the first character at or after i that is not white space
RECURSIVE SkipSpace(_, _)
SkipSpace(s, i) == IF i <= Len(s) /\ IsSpace(CharAt(s, i)) THEN SkipSpace(s, i + 1) ELSE i

\* positions at or after i where a closing fence starts
FencesFrom(s, i) == {j \in i..(Len(s) - 2) : SubSeq(s, j, j + 2) = FENCE}

\* re.search(r"```diff\s+(.*?)```", s, DOTALL | IGNORECASE) matches starting at i:
\* the fence and "diff" in any case, at least one white-space character, and a
\* closing fence somewhere after the white space
FenceOpensAt(s, i) ==
    /\ i + 7 <= Len(s)
    /\ Lower(SubSeq(s, i, i + 6)) = FENCE \o "diff"
    /\ IsSpace(CharAt(s, i + 7))
    /\ FencesFrom(s, SkipSpace(s, i + 7)) # {}

FenceStarts(s) == {i \in 1..Len(s) : FenceOpensAt(s, i)}

Least(S) == CHOOSE x \in S : \A y \in S : x <= y

\* group(1) of the leftmost fence match: \s+ is greedy, (.*?) is lazy
FenceGroup(s) ==
    LET i == Least(FenceStarts(s))
        b == SkipSpace(s, i + 7)
        e == Least(FencesFrom(s, b))
    IN  SubSeq(s, b, e - 1)

\* re.search(r"(^diff --git .*?$.*)", s, DOTALL | MULTILINE) matches starting at i:
\* ^ is the start of the text or the position after a newline; .*?$.* then
\* runs to the end of the text
HeaderAt(s, i) ==
    /\ i = 1 \/ CharAt(s, i - 1) = "\n"
    /\ i + Len(GIT_HEADER) - 1 <= Len(s)
    /\ SubSeq(s, i, i + Len(GIT_HEADER) - 1) = GIT_HEADER

HeaderStarts(s) == {i \in 1..Len(s) : HeaderAt(s, i)}

\* an extraction that does not strip the fenced block it found
extract_diff_fence_unstripped(s) ==
    IF FenceStarts(s) # {} THEN [ok |-> TRUE, value |-> FenceGroup(s)]
    ELSE IF HeaderStarts(s) # {}
         THEN [ok |-> TRUE, value |-> Strip(SubSeq(s, Least(HeaderStarts(s)), Len(s)))]
         ELSE [ok |-> FALSE, value |-> NO_DIFF_MSG]

\* ok: the extracted diff in value; not ok: the ValueError's message in value
extract_diff(s) ==
    IF FenceStarts(s) # {} THEN [ok |-> TRUE, value |-> Strip(FenceGroup(s))]
    ELSE IF HeaderStarts(s) # {}
         THEN [ok |-> TRUE, value |-> Strip(SubSeq(s, Least(HeaderStarts(s)), Len(s)))]
         ELSE [ok |-> FALSE, value |-> NO_DIFF_MSG]

----------------------------------------------------------------------------
(* Inputs of a run: the environment and what the outside world answers.    *)

\* values of the MODEL override
ModelOverrides ==
    { "", "  ", DEFAULT_MODEL, "qwen/qwen3-coder:free",
      " openai/gpt-oss-120b:free\n", "mistralai/mistral-small" }

\* str(e) of the errors a completion request raises
ApiErrors ==
    { "Error code: 429 - Rate limit exceeded",
      "Error code: 401 - Invalid API key",
      "Error code: 404 - No endpoints found" }

\* resp.choices[0].message.content of the completions that return
RawResponses ==
    { FENCE \o "diff\ndiff --git a/x b/x\r\n+y\n" \o FENCE,
      "Here:\ndiff --git a/x b/x\n+y\n",
      "Sorry, no changes." }

NO_KEY_MSG ==
    "OPENROUTER_API_KEY is not set. Configure it in GitHub Actions Secrets to use BYOK."

Eff(op, arg, ok, msg) == [op |-> op, arg |-> arg, ok |-> ok, msg |-> msg]

NoEnv ==
    [GITHUB_TOKEN |-> "", GITHUB_REPOSITORY |-> "", ISSUE_NUMBER |-> "",
     PR_NUMBER |-> "", OPENROUTER_API_KEY |-> "", MODEL |-> ""]

CodeAgentEnvs ==
    { [NoEnv EXCEPT !.GITHUB_TOKEN = t, !.GITHUB_REPOSITORY = r, !.ISSUE_NUMBER = n,
                    !.OPENROUTER_API_KEY = k, !.MODEL = m] :
        t \in {"", "ghs_token"}, r \in {"", "owner/repo"}, n \in {"", "7"},
        k \in {"", "sk-or-key"}, m \in ModelOverrides }

AgnoEnvs ==
    { [NoEnv EXCEPT !.OPENROUTER_API_KEY = k, !.MODEL = m] :
        k \in {"", "sk-or-key"}, m \in ModelOverrides }

ReviewerEnvs ==
    { [NoEnv EXCEPT !.GITHUB_TOKEN = t, !.GITHUB_REPOSITORY = r, !.PR_NUMBER = n] :
        t \in {"", " ", "ghs_token"}, r \in {"", "owner/repo"}, n \in {"", "12"} }

----------------------------------------------------------------------------
(* code_agent.main, step by step.                                          *)

\* the run ends with an unhandled exception
Raise(e) == pc' = "failed" /\ exc' = e

\* comment_issue: the comment is posted, or the failure to post is swallowed
CommentIssue(log, body) == {Append(log, Eff("create_comment", body, posted, "")) : posted \in BOOLEAN}

\* lines 255-263: the required variables are read and checked
CheckEnv ==
    /\ prog = "code_agent" /\ pc = "start"
    /\ IF env.GITHUB_TOKEN = "" \/ env.GITHUB_REPOSITORY = "" \/ env.ISSUE_NUMBER = ""
       THEN Raise("ValueError")
       ELSE pc' = "github" /\ exc' = exc
    /\ UNCHANGED <<prog, env, effects, models, idx, last_err, last_raw, diff_text, used_model>>
    /\ UNCHANGED <<revVars, ctxVars, diffVars>>

\* lines 265-281: repository, issue and base branch are fetched (any of the
\* three requests may raise), then the issue branch is created, or exists
CreateBranch ==
    /\ prog = "code_agent" /\ pc = "github"
    /\ \/ Raise("GithubException") /\ effects' = effects
       \/ /\ \E created \in BOOLEAN :
                effects' = Append(effects, Eff("create_git_ref", "issue-7", created, ""))
          /\ pc' = "prepare_git" /\ exc' = exc
    /\ UNCHANGED <<prog, env, models, idx, last_err, last_raw, diff_text, used_model>>
    /\ UNCHANGED <<revVars, ctxVars, diffVars>>

\* the commands of lines 284-292; "|| true" keeps a command from failing
PrepareCmds ==
    << [cmd |-> "git config user.email", fallible |-> TRUE],
       [cmd |-> "git config user.name", fallible |-> TRUE],
       [cmd |-> "git fetch || true", fallible |-> FALSE],
       [cmd |-> "git checkout", fallible |-> TRUE],
       [cmd |-> "git remote set-url", fallible |-> TRUE],
       [cmd |-> "find __pycache__ || true", fallible |-> FALSE],
       [cmd |-> "find pyc || true", fallible |-> FALSE] >>

\* the commands of lines 402-404
CommitCmds ==
    << [cmd |-> "git add", fallible |-> TRUE],
       [cmd |-> "git commit", fallible |-> TRUE],
       [cmd |-> "git push", fallible |-> TRUE] >>

\* the log after sh() ran the first k commands, the k-th failing when failed
ShLog(log, cmds, k, failed) ==
    log \o [i \in 1..k |-> Eff("sh", cmds[i].cmd, ~(failed /\ i = k), "")]

\* sh() on each command in turn: all succeed (then pc becomes next), or one
\* that can fail raises CalledProcessError, which nothing catches
ShAll(cmds, next) ==
    \/ /\ effects' = ShLog(effects, cmds, Len(cmds), FALSE)
       /\ pc' = next /\ exc' = exc
    \/ \E k \in DOMAIN cmds :
        /\ cmds[k].fallible
        /\ effects' = ShLog(effects, cmds, k, TRUE)
        /\ Raise("CalledProcessError")

\* lines 284-292
PrepareGit ==
    /\ prog = "code_agent" /\ pc = "prepare_git"
    /\ ShAll(PrepareCmds, "context")
    /\ UNCHANGED <<prog, env, models, idx, last_err, last_raw, diff_text, used_model>>
    /\ UNCHANGED <<revVars, ctxVars, diffVars>>

\* lines 295-303: the context is built (build_context has no effect outside
\* the process; SpecCtx models it) and the model list is computed
StartModels ==
    /\ prog = "code_agent" /\ pc = "context"
    /\ models' = iter_models(env.MODEL)
    /\ idx' = 1
    /\ pc' = "models"
    /\ UNCHANGED <<prog, env, effects, last_err, last_raw, diff_text, used_model, exc>>
    /\ UNCHANGED <<revVars, ctxVars, diffVars>>

\* lines 318-320: what the loop does after a failed attempt
after_model_failure(retryable) == "continue"

\* the loop goes on with the next model, or ends when there is none
Continue ==
    /\ idx' = idx + 1
    /\ pc' = IF idx + 1 > Len(models) THEN "after_loop" ELSE "models"
    /\ exc' = exc

\* lines 312-320: the except clause of the model loop
ModelFailed(msg, raw) ==
    /\ last_err' = msg
    /\ IF after_model_failure(looks_retryable_error(msg) \/ looks_retryable_error(raw)) = "continue"
       THEN Continue
       ELSE idx' = idx /\ Raise("APIError")
    /\ UNCHANGED <<diff_text, used_model>>

\* lines 303-320: one pass of the model loop
ModelAttempt ==
    /\ prog = "code_agent" /\ pc = "models" /\ idx <= Len(models)
    /\ LET model == models[idx] IN
       IF env.OPENROUTER_API_KEY = ""
       THEN \* openrouter_client raises before any request is made
            /\ effects' = effects
            /\ last_raw' = last_raw
            /\ ModelFailed(NO_KEY_MSG, last_raw)
       ELSE \/ \E e \in ApiErrors :
                /\ effects' = Append(effects, Eff("completion", model, FALSE, e))
                /\ last_raw' = last_raw
                /\ ModelFailed(e, last_raw)
            \/ \E raw \in RawResponses :
                /\ effects' = Append(effects, Eff("completion", model, TRUE, ""))
                /\ last_raw' = raw
                /\ LET d == extract_diff(raw) IN
                   IF d.ok
                   THEN /\ diff_text' = Strip(ReplaceCRLF(d.value)) \o "\n"
                        /\ used_model' = model
                        /\ pc' = "after_loop" /\ idx' = idx /\ exc' = exc
                        /\ last_err' = last_err
                   ELSE ModelFailed(d.value, raw)
    /\ UNCHANGED <<prog, env, models>>
    /\ UNCHANGED <<revVars, ctxVars, diffVars>>

\* lines 322-332: no model produced a diff
AllModelsFailed ==
    /\ prog = "code_agent" /\ pc = "after_loop" /\ diff_text = ""
    /\ effects' \in CommentIssue(effects, "Code Agent failed to generate a patch.")
    /\ Raise("RuntimeError")
    /\ UNCHANGED <<prog, env, models, idx, last_err, last_raw, diff_text, used_model>>
    /\ UNCHANGED <<revVars, ctxVars, diffVars>>

\* lines 334-342: the patch is written and applied strictly
ApplyStrict ==
    /\ prog = "code_agent" /\ pc = "after_loop" /\ diff_text # ""
    /\ \E ok \in BOOLEAN :
        /\ effects' = Append(effects, Eff("try_sh", "git apply", ok, ""))
        /\ pc' = IF ok THEN "checks" ELSE "apply_3way"
    /\ UNCHANGED <<prog, env, models, idx, last_err, last_raw, diff_text, used_model, exc>>
    /\ UNCHANGED <<revVars, ctxVars, diffVars>>

\* a three-way apply whose failure is not raised
ApplyThreeWayNoRaise ==
    /\ prog = "code_agent" /\ pc = "apply_3way"
    /\ \E ok2 \in BOOLEAN :
        /\ effects' = Append(effects, Eff("try_sh", "git apply --3way", ok2, ""))
        /\ pc' = "checks" /\ exc' = exc
    /\ UNCHANGED <<prog, env, models, idx, last_err, last_raw, diff_text, used_model>>
    /\ UNCHANGED <<revVars, ctxVars, diffVars>>

\* lines 343-352: the three-way apply, after the strict apply failed
ApplyThreeWay ==
    /\ prog = "code_agent" /\ pc = "apply_3way"
    /\ \E ok2 \in BOOLEAN :
        LET log == Append(effects, Eff("try_sh", "git apply --3way", ok2, "")) IN
        IF ok2
        THEN effects' = log /\ pc' = "checks" /\ exc' = exc
        ELSE /\ effects' \in CommentIssue(log, "Generated patch could not be applied.")
             /\ Raise("RuntimeError")
    /\ UNCHANGED <<prog, env, models, idx, last_err, last_raw, diff_text, used_model>>
    /\ UNCHANGED <<revVars, ctxVars, diffVars>>

\* the commands of lines 375-378; try_sh ignores their failures
NpmCmds == << "npm install", "npm run lint", "npm test", "npm run build" >>

\* the outcomes drawn for the four commands: all pass, only the lint fails,
\* the tests and the build fail, everything fails
NpmOutcomes ==
    { <<TRUE, TRUE, TRUE, TRUE>>, <<TRUE, FALSE, TRUE, TRUE>>,
      <<TRUE, TRUE, FALSE, FALSE>>, <<FALSE, FALSE, FALSE, FALSE>> }

\* lines 354-384: the patch file is removed, the best-effort checks run when a
\* package.json is found, and the caches are cleaned
BestEffortChecks ==
    /\ prog = "code_agent" /\ pc = "checks"
    /\ \E node_dir \in BOOLEAN : \E oks \in NpmOutcomes :
        LET npm == IF node_dir
                   THEN [i \in DOMAIN NpmCmds |-> Eff("try_sh", NpmCmds[i], oks[i], "")]
                   ELSE <<>>
        IN  /\ ~node_dir => \A i \in DOMAIN oks : oks[i]
            /\ effects' = effects \o npm
                  \o << Eff("sh", "find __pycache__ || true", TRUE, ""),
                        Eff("sh", "find pyc || true", TRUE, "") >>
    /\ pc' = "status"
    /\ UNCHANGED <<prog, env, models, idx, last_err, last_raw, diff_text, used_model, exc>>
    /\ UNCHANGED <<revVars, ctxVars, diffVars>>

\* lines 387-400: git status; without changes a comment is posted and main returns
GitStatus ==
    /\ prog = "code_agent" /\ pc = "status"
    /\ \/ /\ effects' = Append(effects, Eff("check_output", "git status", FALSE, ""))
          /\ Raise("CalledProcessError")
       \/ \E changed \in BOOLEAN :
            LET log == Append(effects, Eff("check_output", "git status", TRUE, "")) IN
            /\ IF changed
               THEN effects' = log /\ pc' = "commit"
               ELSE /\ effects' \in CommentIssue(log, "No changes detected after applying the patch.")
                    /\ pc' = "done"
            /\ exc' = exc
    /\ UNCHANGED <<prog, env, models, idx, last_err, last_raw, diff_text, used_model>>
    /\ UNCHANGED <<revVars, ctxVars, diffVars>>

\* lines 402-404
CommitAndPush ==
    /\ prog = "code_agent" /\ pc = "commit"
    /\ ShAll(CommitCmds, "create_pull")
    /\ UNCHANGED <<prog, env, models, idx, last_err, last_raw, diff_text, used_model>>
    /\ UNCHANGED <<revVars, ctxVars, diffVars>>

\* lines 406-423: the pull request is created, or the failure is printed
CreatePull ==
    /\ prog = "code_agent" /\ pc = "create_pull"
    /\ \E ok \in BOOLEAN :
        effects' = Append(effects, Eff("create_pull", "issue-7", ok, ""))
    /\ pc' = "done"
    /\ UNCHANGED <<prog, env, models, idx, last_err, last_raw, diff_text, used_model, exc>>
    /\ UNCHANGED <<revVars, ctxVars, diffVars>>

----------------------------------------------------------------------------
(* agno_agent.run_coding_agent.                                            *)

\* lines 80-87: the key is checked, then the loop over _iter_models() starts
AgnoCheckKey ==
    /\ prog = "agno_agent" /\ pc = "start"
    /\ IF env.OPENROUTER_API_KEY = ""
       THEN Raise("ValueError") /\ UNCHANGED <<models, idx>>
       ELSE /\ models' = agno_iter_models(env.MODEL)
            /\ idx' = 1
            /\ pc' = "models" /\ exc' = exc
    /\ UNCHANGED <<prog, env, effects, last_err, last_raw, diff_text, used_model>>
    /\ UNCHANGED <<revVars, ctxVars, diffVars>>

\* lines 98-102: what the loop does after a failed attempt
agno_after_model_failure(transient) == IF transient THEN "continue" ELSE "raise"

\* lines 87-102: one pass of the loop; a pass that returns ends the run
AgnoAttempt ==
    /\ prog = "agno_agent" /\ pc = "models" /\ idx <= Len(models)
    /\ LET model_id == models[idx] IN
       \/ /\ effects' = Append(effects, Eff("completion", model_id, TRUE, ""))
          /\ pc' = "done"
          /\ UNCHANGED <<idx, last_err, exc>>
       \/ \E e \in ApiErrors :
          /\ effects' = Append(effects, Eff("completion", model_id, FALSE, e))
          /\ last_err' = e
          /\ IF agno_after_model_failure(looks_like_transient_error(e)) = "continue"
             THEN Continue
             ELSE idx' = idx /\ Raise("APIError")
    /\ UNCHANGED <<prog, env, models, last_raw, diff_text, used_model>>
    /\ UNCHANGED <<revVars, ctxVars, diffVars>>

\* line 104: every model failed with a transient error
AgnoExhausted ==
    /\ prog = "agno_agent" /\ pc = "after_loop"
    /\ Raise("RuntimeError")
    /\ UNCHANGED <<prog, env, effects, models, idx, last_err, last_raw, diff_text, used_model>>
    /\ UNCHANGED <<revVars, ctxVars, diffVars>>

----------------------------------------------------------------------------
(* reviewer_agent.                                                         *)

\* the states a commit status reports, and one the code does not name
CheckStates == {"success", "failure", "error", "pending", "neutral"}

\* the changed-file lists drawn for a pull request
FileNameLists ==
    { <<>>,
      << "src/App.tsx" >>,
      << "pnpm-lock.yaml" >>,
      << "src/App.tsx", "web/yarn.lock" >>,
      << "package-lock.json.bak" >> }

LOCK_SUFFIXES == << "package-lock.json", "pnpm-lock.yaml", "yarn.lock" >>

\* an aggregate that does not count "error" as a failure
get_checks_summary_no_error(failed, sts) ==
    IF failed THEN "unknown"
    ELSE IF \E i \in DOMAIN sts : sts[i] = "failure" THEN "failure"
    ELSE IF \E i \in DOMAIN sts : sts[i] = "pending" THEN "pending"
    ELSE IF sts # <<>> /\ \A i \in DOMAIN sts : sts[i] = "success" THEN "success"
    ELSE "unknown"

\* get_checks_summary: overall_status; failed: the fetch raised
get_checks_summary(failed, sts) ==
    IF failed THEN "unknown"
    ELSE IF \E i \in DOMAIN sts : sts[i] \in {"failure", "error"} THEN "failure"
    ELSE IF \E i \in DOMAIN sts : sts[i] = "pending" THEN "pending"
    ELSE IF sts # <<>> /\ \A i \in DOMAIN sts : sts[i] = "success" THEN "success"
    ELSE "unknown"

\* line 90
Suspicious(names) ==
    \E i \in DOMAIN names : \E j \in DOMAIN LOCK_SUFFIXES : EndsWith(names[i], LOCK_SUFFIXES[j])

\* a policy that approves every green pull request
VerdictOfApproveGreen(overall, susp) ==
    IF overall = "failure" THEN "request_changes"
    ELSE IF overall = "pending" THEN "comment"
    ELSE IF overall = "success" THEN "approve"
    ELSE "comment"

\* lines 92-107
VerdictOf(overall, susp) ==
    IF overall = "failure" THEN "request_changes"
    ELSE IF overall = "pending" THEN "comment"
    ELSE IF overall = "success" THEN (IF susp THEN "comment" ELSE "approve")
    ELSE "comment"

\* lines 146-151
ReviewEvent(v) ==
    IF v = "approve" THEN "APPROVE"
    ELSE IF v = "request_changes" THEN "REQUEST_CHANGES"
    ELSE "COMMENT"

\* lines 64-66: get_env strips each value and raises when nothing is left
RevCheckEnv ==
    /\ prog = "reviewer_agent" /\ pc = "start"
    /\ IF Strip(env.GITHUB_TOKEN) = "" \/ Strip(env.GITHUB_REPOSITORY) = ""
          \/ Strip(env.PR_NUMBER) = ""
       THEN Raise("ValueError")
       ELSE pc' = "fetch" /\ exc' = exc
    /\ UNCHANGED <<prog, env, effects, models, idx, last_err, last_raw, diff_text, used_model>>
    /\ UNCHANGED <<revVars, ctxVars, diffVars>>

\* lines 68-84: the pull request, its files and its combined status are read
RevFetch ==
    /\ prog = "reviewer_agent" /\ pc = "fetch"
    /\ \/ /\ Raise("GithubException")
          /\ UNCHANGED <<file_names, states, fetch_failed, checks_overall>>
       \/ /\ file_names' \in FileNameLists
          /\ \/ fetch_failed' = TRUE /\ states' = <<>>
             \/ /\ fetch_failed' = FALSE
                /\ \E n \in 0..MaxChecks : states' \in [1..n -> CheckStates]
          /\ checks_overall' = get_checks_summary(fetch_failed', states')
          /\ pc' = "verdict" /\ exc' = exc
    /\ UNCHANGED <<prog, env, effects, models, idx, last_err, last_raw, diff_text, used_model>>
    /\ UNCHANGED <<suspicious, verdict, ctxVars, diffVars>>

\* lines 90-107
RevVerdict ==
    /\ prog = "reviewer_agent" /\ pc = "verdict"
    /\ suspicious' = Suspicious(file_names)
    /\ verdict' = VerdictOf(checks_overall, suspicious')
    /\ pc' = "comment"
    /\ UNCHANGED <<prog, env, effects, models, idx, last_err, last_raw, diff_text, used_model, exc>>
    /\ UNCHANGED <<file_names, states, fetch_failed, checks_overall, ctxVars, diffVars>>

\* lines 110-144: the report is posted as a comment on the pull request
RevComment ==
    /\ prog = "reviewer_agent" /\ pc = "comment"
    /\ \/ /\ effects' = Append(effects, Eff("create_issue_comment", checks_overall, FALSE, ""))
          /\ Raise("GithubException")
       \/ /\ effects' = Append(effects, Eff("create_issue_comment", checks_overall, TRUE, ""))
          /\ pc' = "review" /\ exc' = exc
    /\ UNCHANGED <<prog, env, models, idx, last_err, last_raw, diff_text, used_model>>
    /\ UNCHANGED <<revVars, ctxVars, diffVars>>

\* lines 146-153: the review action is posted
RevReview ==
    /\ prog = "reviewer_agent" /\ pc = "review"
    /\ \/ /\ effects' = Append(effects, Eff("create_review", ReviewEvent(verdict), FALSE, ""))
          /\ Raise("GithubException")
       \/ /\ effects' = Append(effects, Eff("create_review", ReviewEvent(verdict), TRUE, ""))
          /\ pc' = "done" /\ exc' = exc
    /\ UNCHANGED <<prog, env, models, idx, last_err, last_raw, diff_text, used_model>>
    /\ UNCHANGED <<revVars, ctxVars, diffVars>>

----------------------------------------------------------------------------
(* One run of one program.                                                 *)

\* the variables of build_context and extract_diff, which Spec leaves alone
NoContext == [length |-> 0, counted |-> 0, paths |-> <<>>, sizes |-> <<>>, stopped |-> FALSE]

CtxIdle ==
    /\ issue_text = "" /\ all_files = <<>> /\ chosen = <<>> /\ ctx_pc = "idle"
    /\ context = NoContext

DiffIdle ==
    /\ text = "" /\ diff_pc = "idle"
    /\ first = [ok |-> FALSE, value |-> ""] /\ second = [ok |-> FALSE, value |-> ""]

MainIdle ==
    /\ prog = "none" /\ env = NoEnv /\ pc = "idle" /\ effects = <<>>
    /\ models = <<>> /\ idx = 0 /\ last_err = "" /\ last_raw = ""
    /\ diff_text = "" /\ used_model = "" /\ exc = ""

RevIdle ==
    /\ file_names = <<>> /\ states = <<>> /\ fetch_failed = FALSE
    /\ checks_overall = "" /\ suspicious = FALSE /\ verdict = ""

Init ==
    /\ \/ prog = "code_agent" /\ env \in CodeAgentEnvs
       \/ prog = "agno_agent" /\ env \in AgnoEnvs
       \/ prog = "reviewer_agent" /\ env \in ReviewerEnvs
    /\ pc = "start" /\ effects = <<>>
    /\ models = <<>> /\ idx = 0 /\ last_err = "" /\ last_raw = ""
    /\ diff_text = "" /\ used_model = "" /\ exc = ""
    /\ RevIdle /\ CtxIdle /\ DiffIdle

Next ==
    \/ CheckEnv \/ CreateBranch \/ PrepareGit \/ StartModels \/ ModelAttempt
    \/ AllModelsFailed \/ ApplyStrict \/ ApplyThreeWay \/ BestEffortChecks
    \/ GitStatus \/ CommitAndPush \/ CreatePull
    \/ AgnoCheckKey \/ AgnoAttempt \/ AgnoExhausted
    \/ RevCheckEnv \/ RevFetch \/ RevVerdict \/ RevComment \/ RevReview

Spec == Init /\ [][Next]_vars

----------------------------------------------------------------------------
(* code_agent.score_file, read_file and build_context.                     *)

MAX_FILES_IN_CONTEXT == 8
MAX_CHARS_PER_FILE == 7000
MAX_TOTAL_CONTEXT_CHARS == 45000

\* keywords[:80]
KEYWORD_LIMIT == 80

\* the characters of the class [a-zA-Z0-9_/-]
KeywordChars == CharsOf(LowerChars \o UpperChars \o "0123456789_/-")

IsKeywordChar(c) == c \in KeywordChars

\* index after the run of keyword characters that starts at i
RECURSIVE RunEnd(_, _)
RunEnd(s, i) == IF i <= Len(s) /\ IsKeywordChar(CharAt(s, i)) THEN RunEnd(s, i + 1) ELSE i

\* re.findall(r"[a-zA-Z0-9_/-]{3,}", s) from position i on: the maximal runs
\* of keyword characters that are at least three long, left to right; a run
\* starts at i or after a character outside the class
FindKeywords(s, i) ==
    LET starts == SelectSeq([j \in 1..Len(s) |-> j],
                     LAMBDA j : /\ j >= i
                                /\ IsKeywordChar(CharAt(s, j))
                                /\ (j = i \/ ~IsKeywordChar(CharAt(s, j - 1)))
                                /\ RunEnd(s, j) - j >= 3)
    IN  [k \in DOMAIN starts |-> SubSeq(s, starts[k], RunEnd(s, starts[k]) - 1)]

BOOSTS ==
    << "src/app", "src/main", "src/index", "src/pages", "src/components",
       "app.tsx", "app.jsx", "main.tsx", "main.jsx", "index.tsx", "index.jsx",
       "package.json", "vite.config", "next.config" >>

\* how many elements of q occur in name
Hits(q, name) == Cardinality({i \in DOMAIN q : Contains(name, q[i])})

\* score_file with the keyword loop stopping at the first keyword found in the
\* path: 5 points once, however many keywords match
score_file_first_keyword_only(rel, task) ==
    LET name == Lower(rel)
        keywords == FindKeywords(Lower(task), 1)
        considered == SubSeq(keywords, 1, IF Len(keywords) < KEYWORD_LIMIT
                                          THEN Len(keywords) ELSE KEYWORD_LIMIT)
    IN  (IF Hits(considered, name) > 0 THEN 5 ELSE 0) + 10 * Hits(BOOSTS, name)

score_file(rel, task) ==
    LET name == Lower(rel)
        keywords == FindKeywords(Lower(task), 1)
        considered == SubSeq(keywords, 1, IF Len(keywords) < KEYWORD_LIMIT
                                          THEN Len(keywords) ELSE KEYWORD_LIMIT)
    IN  5 * Hits(considered, name) + 10 * Hits(BOOSTS, name)

TRUNCATED_MARK == "\n\n/* ...truncated... */\n"

\* len(read_file(rel)) for a file of n characters
ReadFileLen(n) == IF n > MAX_CHARS_PER_FILE THEN MAX_CHARS_PER_FILE + Len(TRUNCATED_MARK) ELSE n

CONTEXT_HEADER == "=== REPOSITORY FILE CONTEXT (selected) ===\n"

\* len(block) of line 196 for a candidate file
BlockLen(f) == Len("\n--- FILE: ") + Len(f.path) + Len(" ---\n") + ReadFileLen(f.size) + Len("\n")

\* sorted(q, key=..., reverse=True) on files that carry their key: stable,
\* equal scores keep their order
RECURSIVE SortedByScore(_)
SortedByScore(q) ==
    IF q = <<>> THEN <<>>
    ELSE LET best == CHOOSE i \in DOMAIN q :
                        /\ \A j \in DOMAIN q : q[j].score <= q[i].score
                        /\ \A j \in 1..(i - 1) : q[j].score < q[i].score
         IN  <<q[best]>> \o SortedByScore(SubSeq(q, 1, best - 1) \o SubSeq(q, best + 1, Len(q)))

\* ranked of line 189: the key of each path is computed once, then sorted
Ranked(task, paths) ==
    LET keyed == [k \in DOMAIN paths |->
                    [path |-> paths[k], score |-> score_file(paths[k], task)]]
    IN  SortedByScore(SubSeq(keyed, 1, Len(paths)))

\* the loop of lines 195-200 over the files still to come; acc is what has
\* been accumulated: total, the paths of the blocks added, whether it broke
RECURSIVE AddBlocks(_, _)
AddBlocks(acc, rest) ==
    IF rest = <<>> THEN acc
    ELSE IF acc.counted + BlockLen(Head(rest)) > MAX_TOTAL_CONTEXT_CHARS
         THEN [acc EXCEPT !.stopped = TRUE]
         ELSE AddBlocks([acc EXCEPT !.counted = @ + BlockLen(Head(rest)),
                                    !.paths = Append(@, Head(rest).path)],
                        Tail(rest))

\* chosen of line 190
Chosen(task, files) ==
    LET ranked == Ranked(task, files)
    IN  SubSeq(ranked, 1, IF Len(ranked) < MAX_FILES_IN_CONTEXT
                          THEN Len(ranked) ELSE MAX_FILES_IN_CONTEXT)

\* lines 192-202 for the chosen files, each with the size of its content:
\* length is len() of the string returned
JoinedContext(files) ==
    LET acc == AddBlocks([counted |-> 0, paths |-> <<>>, stopped |-> FALSE], files)
    IN  [length |-> Len(CONTEXT_HEADER) + acc.counted, counted |-> acc.counted,
         paths |-> acc.paths, sizes |-> [k \in DOMAIN files |-> files[k].size],
         stopped |-> acc.stopped]

\* paths gather_repo_files can return, in traversal order
PathPool ==
    << "README.md", "package.json", "src/App.tsx", "src/main.tsx", "src/index.css",
       "src/components/Button.tsx", "src/pages/Home.tsx", "src/utils/api.ts",
       "vite.config.ts", "tsconfig.json", "docs/guide.md", "src/styles/theme.scss" >>

\* file sizes (characters) drawn for the candidates
FileSizes == {2600, 7000, 9000}

\* (title, body) of the issues drawn
Issues ==
    { <<"Fix button color in App.tsx", "">>,
      <<"Update the guide", "See docs/guide.md and README.md\n">> }

Min(a, b) == IF a < b THEN a ELSE b

CtxInit ==
    /\ MainIdle /\ RevIdle /\ DiffIdle
    /\ \E i \in Issues : issue_text = Strip(i[1] \o "\n" \o i[2])
    /\ \E n \in 0..Min(MaxCandidates, Len(PathPool)) : all_files = SubSeq(PathPool, 1, n)
    /\ chosen = <<>> /\ ctx_pc = "start"
    /\ context = NoContext

\* lines 186-190: the candidates are ranked and the first eight chosen
RankFiles ==
    /\ ctx_pc = "start"
    /\ chosen' = Chosen(issue_text, all_files)
    /\ ctx_pc' = "ranked"
    /\ UNCHANGED <<mainVars, revVars, diffVars, issue_text, all_files, context>>

\* lines 192-202: the chosen files are read (their sizes are what the file
\* system answers), the blocks are added within the budget and joined
JoinBlocks ==
    /\ ctx_pc = "ranked"
    /\ \E size \in [DOMAIN chosen -> FileSizes] :
          context' = JoinedContext([k \in DOMAIN chosen |->
                                       [path |-> chosen[k].path, size |-> size[k]]])
    /\ ctx_pc' = "returned"
    /\ UNCHANGED <<mainVars, revVars, diffVars, issue_text, all_files, chosen>>

CtxNext == RankFiles \/ JoinBlocks

SpecCtx == CtxInit /\ [][CtxNext]_vars

\* C9: the string build_context returns is never longer than
\* MAX_TOTAL_CONTEXT_CHARS, and after the first block that would exceed the
\* budget no further file is added.
C9_ContextWithinBudget ==
    ctx_pc = "returned" =>
        /\ context.length <= MAX_TOTAL_CONTEXT_CHARS
        /\ Len(context.paths) <= Len(chosen)
        /\ \A k \in DOMAIN context.paths : context.paths[k] = chosen[k].path
        /\ context.stopped <=> Len(context.paths) < Len(chosen)

----------------------------------------------------------------------------
(* extract_diff applied to a text, then to its own result.                 *)

\* what the texts drawn are made of
DiffFragments ==
    { FENCE \o "diff\n", FENCE \o "DIFF ", FENCE, GIT_HEADER, "a/f b/f\n",
      "+x\r\n", "Here:\n", " " }

\* the texts made of at most n fragments
RECURSIVE TextsUpTo(_)
TextsUpTo(n) ==
    IF n = 0 THEN {""}
    ELSE LET shorter == TextsUpTo(n - 1)
         IN  shorter \cup {t \o f : t \in shorter, f \in DiffFragments}

NoResult == [ok |-> FALSE, value |-> ""]

DiffInit ==
    /\ MainIdle /\ RevIdle /\ CtxIdle
    /\ text \in TextsUpTo(MaxFragments)
    /\ diff_pc = "start"
    /\ first = NoResult /\ second = NoResult

\* extract_diff(text)
ExtractFirst ==
    /\ diff_pc = "start"
    /\ first' = extract_diff(text)
    /\ diff_pc' = "once"
    /\ UNCHANGED <<mainVars, revVars, ctxVars, text, second>>

\* extract_diff(d) for the d the first call returned
ExtractSecond ==
    /\ diff_pc = "once" /\ first.ok
    /\ second' = extract_diff(first.value)
    /\ diff_pc' = "twice"
    /\ UNCHANGED <<mainVars, revVars, ctxVars, text, first>>

DiffNext == ExtractFirst \/ ExtractSecond

SpecDiff == DiffInit /\ [][DiffNext]_vars

\* C10 as stated: whenever extract_diff succeeds with d, extract_diff(d)
\* succeeds and returns d.
C10_ExtractIdempotent ==
    diff_pc = "twice" => (second.ok /\ second.value = first.value)

\* C10 as amended: whenever extract_diff succeeds with a d that starts with
\* the header "diff --git ", extract_diff(d) succeeds and returns d, whether d
\* came from a fenced block or from a bare header.
C10_ExtractIdempotentOnHeader ==
    (diff_pc = "twice" /\ StartsWith(first.value, GIT_HEADER))
    => (second.ok /\ second.value = first.value)

\* C10 witness: a fenced block held a diff that starts with the header, and
\* the second extraction returned it unchanged.
C10_FencedHeaderExtractedTwice ==
    /\ diff_pc = "twice"
    /\ FenceStarts(text) # {}
    /\ StartsWith(first.value, GIT_HEADER)
    /\ second = first

----------------------------------------------------------------------------
(* Properties of a run.                                                    *)

\* the completion requests sent so far, in order
Completions == SelectSeq(effects, LAMBDA e : e.op = "completion")

\* the model identifiers they were sent to
Attempted == [i \in DOMAIN Completions |-> Completions[i].arg]

IsPrefix(p, q) == Len(p) <= Len(q) /\ \A i \in DOMAIN p : p[i] = q[i]

\* q without the elements that occur earlier in q
KeepFirst(q) ==
    LET keep == {i \in DOMAIN q : \A j \in 1..(i - 1) : q[j] # q[i]}
        Rank(i) == Cardinality({j \in keep : j <= i})
    IN  [k \in 1..Cardinality(keep) |-> q[CHOOSE i \in keep : Rank(i) = k]]

Override == Strip(env.MODEL)

AllowListOf(p) == IF p = "agno_agent" THEN AGNO_ALLOWLIST_DEFAULT ELSE ALLOWLIST_DEFAULT

\* the transient markers of the program that runs
IsTransient(msg) ==
    IF prog = "agno_agent" THEN looks_like_transient_error(msg)
    ELSE looks_retryable_error(msg)

\* C1: once a completion request has failed with an error whose message
\* matches none of the transient markers, the run ends with that error and no
\* further model is sent a request, in code_agent main and in run_coding_agent.
C1_NonTransientErrorEndsRun ==
    \A i \in DOMAIN effects :
        (effects[i].op = "completion" /\ ~effects[i].ok /\ ~IsTransient(effects[i].msg))
        => /\ pc = "failed"
           /\ \A j \in DOMAIN effects : j > i => effects[j].op # "completion"

\* C2: no model identifier is sent a completion request more than once in a
\* run, whatever the MODEL override is.
C2_NoModelTwice ==
    \A i, j \in DOMAIN Attempted : i < j => Attempted[i] # Attempted[j]

\* C2 witness: the override equals an allow-list entry (after stripping) and
\* every model of the list has been sent a request.
C2_OverrideInAllowListAllTried ==
    /\ prog = "code_agent"
    /\ \E k \in DOMAIN ALLOWLIST_DEFAULT : Override = ALLOWLIST_DEFAULT[k]
    /\ env.MODEL # Override
    /\ pc = "failed"
    /\ Len(Attempted) = Len(ALLOWLIST_DEFAULT)

\* C3 as stated, for code_agent: the attempts follow the order override (when
\* non-empty), fixed default, allow-list entries, later duplicates dropped, so
\* that the fixed default is attempted right after an override different from it.
C3_OverrideThenDefaultThenAllowList ==
    prog = "code_agent" =>
        IsPrefix(Attempted,
                 KeepFirst((IF Override # "" THEN <<Override>> ELSE <<>>)
                           \o <<DEFAULT_MODEL>> \o ALLOWLIST_DEFAULT))

\* C3 as amended: the attempts follow the order override (when non-empty),
\* otherwise the fixed default (code_agent only), then the allow-list entries
\* of the program in their listed order, later duplicates dropped; with an
\* override different from it the fixed default is never attempted.
C3_OverrideOrDefaultThenAllowList ==
    prog \in {"code_agent", "agno_agent"} =>
        /\ IsPrefix(Attempted,
                    KeepFirst((IF Override # "" THEN <<Override>>
                               ELSE IF prog = "code_agent" THEN <<DEFAULT_MODEL>>
                               ELSE <<>>)
                              \o AllowListOf(prog)))
        /\ (Override # "" /\ Override # DEFAULT_MODEL) =>
               \A i \in DOMAIN Attempted : Attempted[i] # DEFAULT_MODEL

\* C3 witness: code_agent ran with an override that is neither the default nor
\* an allow-list entry, and tried every model of its list.
C3_CustomOverrideAllTried ==
    /\ prog = "code_agent"
    /\ Override # "" /\ Override # DEFAULT_MODEL
    /\ \A k \in DOMAIN ALLOWLIST_DEFAULT : Override # ALLOWLIST_DEFAULT[k]
    /\ Len(Attempted) = 1 + Len(ALLOWLIST_DEFAULT)
    /\ Attempted[1] = Override /\ Attempted[2] = ALLOWLIST_DEFAULT[1]

\* the required variables of the program that runs, and whether one is missing
RequiredEnv ==
    IF prog = "code_agent"
    THEN {env.GITHUB_TOKEN, env.GITHUB_REPOSITORY, env.ISSUE_NUMBER, env.OPENROUTER_API_KEY}
    ELSE IF prog = "reviewer_agent"
    THEN {env.GITHUB_TOKEN, env.GITHUB_REPOSITORY, env.PR_NUMBER}
    ELSE {env.OPENROUTER_API_KEY}

\* C4: when a required environment variable is missing, the run performs no
\* side effect: no branch creation, git command, completion request, issue
\* comment or review takes effect.
C4_MissingEnvNoSideEffect ==
    ("" \in RequiredEnv) => \A i \in DOMAIN effects : ~effects[i].ok

IsComment(e) == e.op = "create_comment" /\ e.ok

\* C5: a run of the patch pipeline that ended in a fatal failure of a model,
\* patch or git/shell step has posted a comment on the issue.
C5_FatalFailureCommented ==
    (prog = "code_agent" /\ pc = "failed" /\ exc \in {"RuntimeError", "CalledProcessError"})
    => \E i \in DOMAIN effects : IsComment(effects[i])

IsThreeWay(e) == e.op = "try_sh" /\ e.arg = "git apply --3way"
IsStrict(e) == e.op = "try_sh" /\ e.arg = "git apply"
IsPublish(e) ==
    \/ e.op = "create_pull"
    \/ e.op = "sh" /\ e.arg \in {"git add", "git commit", "git push"}

\* C6: a three-way apply directly follows a failed strict apply, there is at
\* most one, and when it fails too the run has failed and nothing is
\* committed, pushed or opened as a pull request after it.
C6_ThreeWayOnceThenFatal ==
    /\ \A i \in DOMAIN effects : IsThreeWay(effects[i]) =>
          /\ i > 1 /\ IsStrict(effects[i - 1]) /\ ~effects[i - 1].ok
          /\ ~effects[i].ok =>
                /\ pc = "failed" /\ exc = "RuntimeError"
                /\ \A j \in DOMAIN effects : j > i => ~IsPublish(effects[j])
    /\ Cardinality({i \in DOMAIN effects : IsThreeWay(effects[i])}) <= 1

\* C6 witness: both applies failed and the run has ended.
C6_BothAppliesFailed ==
    /\ pc = "failed"
    /\ \E i \in DOMAIN effects : IsThreeWay(effects[i]) /\ ~effects[i].ok

\* the review events posted so far
Reviews == SelectSeq(effects, LAMBDA e : e.op = "create_review")

C8_ChecksAggregate ==
    (prog = "reviewer_agent" /\ checks_overall # "") =>
        LET any_failed == \E i \in DOMAIN states : states[i] = "failure" \/ states[i] = "error"
            any_pending == \E i \in DOMAIN states : states[i] = "pending"
            all_success == Len(states) > 0 /\ Range(states) = {"success"}
        IN  /\ fetch_failed => checks_overall = "unknown"
            /\ ~fetch_failed =>
                /\ any_failed => checks_overall = "failure"
                /\ (~any_failed /\ any_pending) => checks_overall = "pending"
                /\ (~any_failed /\ ~any_pending /\ all_success) => checks_overall = "success"
                /\ (~any_failed /\ ~any_pending /\ ~all_success) => checks_overall = "unknown"

\* C8 witness: an error state next to a pending one, and no failure state.
C8_ErrorCountsAsFailure ==
    /\ prog = "reviewer_agent" /\ ~fetch_failed
    /\ "error" \in Range(states) /\ "pending" \in Range(states)
    /\ "failure" \notin Range(states)
    /\ checks_overall = "failure"

(***************************************************************************)
(* score_file on its own: one candidate path and a task text that may hold  *)
(* more keywords than the loop of line 151 looks at                         *)
(***************************************************************************)

\* how many keywords past keywords[:80] the task texts drawn reach
MaxTokensOver == 2

\* a word of the task text that occurs in no path of PathPool
FILLER_WORD == "lorem "

RECURSIVE Fillers(_)
Fillers(n) == IF n = 0 THEN "" ELSE FILLER_WORD \o Fillers(n - 1)

\* how many filler words precede the rest of the task text
FillerCounts == {0} \cup ((KEYWORD_LIMIT - 3)..(KEYWORD_LIMIT + MaxTokensOver))

\* what follows the filler words
TaskTails ==
    { "Fix button color in App.tsx",
      "Docs guide: see docs/guide.md and README.md",
      "guide" }

ScoreTasks == {Fillers(n) \o t : n \in FillerCounts, t \in TaskTails}

\* score_file(rel, issue_text) is about to be called for one path
ScoreInit ==
    /\ MainIdle /\ RevIdle /\ DiffIdle
    /\ issue_text \in ScoreTasks
    /\ \E k \in DOMAIN PathPool : all_files = <<PathPool[k]>>
    /\ chosen = <<>> /\ ctx_pc = "start"
    /\ context = NoContext

\* the key function of line 189 is applied to the path (RankFiles keeps the
\* score next to the path)
SpecScore == ScoreInit /\ [][RankFiles]_vars

\* the keywords line 150 finds in the task text
TaskTokens == FindKeywords(Lower(issue_text), 1)

\* the keywords among the first n found that occur in the lowercased path:
\* a set, so each distinct keyword counts once
MatchingTokens(rel, n) ==
    {TaskTokens[i] : i \in {j \in DOMAIN TaskTokens : j <= n /\ Contains(Lower(rel), TaskTokens[j])}}

\* C11 (as stated): once a path is scored, its score is at least 5 times the
\* number of distinct keywords of the task text (three characters or more)
\* that occur in the lowercased path, however many keywords the text holds and
\* wherever the matching ones stand.
C11_ScoreCountsEveryMatchingToken ==
    ctx_pc = "ranked" =>
        \A k \in DOMAIN chosen :
            chosen[k].score >= 5 * Cardinality(MatchingTokens(chosen[k].path, Len(TaskTokens)))

\* C11 (amended): once a path is scored, its score is at least 5 times the
\* number of distinct keywords among the first 80 keywords of the task text
\* that occur in the lowercased path; keywords past the 80th add nothing.
C11_ScoreCountsFirstEightyTokens ==
    ctx_pc = "ranked" =>
        \A k \in DOMAIN chosen :
            chosen[k].score >= 5 * Cardinality(MatchingTokens(chosen[k].path, KEYWORD_LIMIT))

\* C11 witness: a path is scored against a text of more than 80 keywords, two
\* distinct keywords among the first 80 occur in the path and a third one
\* past the 80th does too; the score is exactly 5 per keyword counted
C11_LongTextTwoTokensCounted ==
    /\ ctx_pc = "ranked"
    /\ Len(TaskTokens) > KEYWORD_LIMIT
    /\ \E k \in DOMAIN chosen :
          /\ Cardinality(MatchingTokens(chosen[k].path, KEYWORD_LIMIT)) = 2
          /\ Cardinality(MatchingTokens(chosen[k].path, Len(TaskTokens))) = 3
          /\ chosen[k].score = 10

====
